---- MODULE Spec2Model ----
(***************************************************************************)
(* Model of the LinkedIn comment-generator content script (src/content.js).*)
(*                                                                         *)
(* The feed is a sequence of post elements in document order.  A post      *)
(* element carries the attributes the script reads through its selectors:  *)
(* the class that makes the scanner find it, data-urn, id, its text, its   *)
(* media, its comment affordance and its action bar.  The trigger controls *)
(* the script injected into a post are kept with the post (ctrls).         *)
(*                                                                         *)
(* JavaScript runs every callback to completion, so a pass of              *)
(* addButtonsToPosts, a click handler and a promise continuation are one   *)
(* action each.                                                            *)
(*                                                                         *)
(* Post elements are not nested in one another, and the text of a post is  *)
(* the text the host page rendered: the labels of the injected control and *)
(* of the comment UI are not counted as post text.                         *)
(***************************************************************************)
EXTENDS Integers, Sequences, FiniteSets, TLC

VARIABLES
    feed,             \* document: sequence of post elements, document order
    nextEl,           \* next fresh element number the host page will use
    hostSteps,        \* changes the host page has made to the feed so far
    processedPostIds, \* content.js:520
    activeCommentUI,  \* content.js:521 (NoUI = null)
    startupPending,   \* the setTimeout(..., 2000) of initialize not yet run
    mutTimers,        \* pending setTimeout(..., 500) of the mutation observer
    streak,           \* passes run in a row up to now, counted to 2 (history)
    buttonsAdded,     \* buttonsAdded of the pass just run (content.js:1411)
    lastPass,         \* how the most recent pass ended (history)
    apiCalls,         \* calls of generateCommentAPI made so far
    insertCalls,      \* calls of the insertion routines made so far
    hc,               \* one evaluation of hasContent: the post and the result
    ins,              \* one invocation of an insertion routine
    gw,               \* the calls of generateCommentAPI, one at a time
    bg,               \* the background listener and the message it handles
    cm,               \* the content script's listener: the last message
    ov                \* two insertion routines running on one document

pageVars == <<feed, nextEl, hostSteps, processedPostIds, activeCommentUI,
              startupPending, mutTimers, streak, buttonsAdded, lastPass,
              apiCalls, insertCalls>>

\* The state of the functions that are examined on their own.
unitVars == <<hc, ins, gw, bg, cm, ov>>

vars == <<pageVars, unitVars>>

(***************************************************************************)
(* Bounds of the model.                                                    *)
(***************************************************************************)
MaxElems == 2      \* post elements the host page creates in a page lifetime
MaxHostSteps == 3  \* changes the host page makes to the feed in a page lifetime
MaxTimers == 2     \* mutation-observer timeouts pending at one time
MaxApiCalls == 1   \* generation requests issued in a page lifetime

(***************************************************************************)
(* Thresholds of the script.                                               *)
(***************************************************************************)
minContentLength == 20     \* hasContent
extractMinLength == 10     \* extractPostContent, specific selectors
sweepMinLength == 30       \* extractPostContent, generic sweep
idSliceLength == 40        \* getPostId: slice(0, 40)

Min(a, b) == IF a < b THEN a ELSE b

(***************************************************************************)
(* Text of a post.  region tells which selector list reaches the text:     *)
(*   "common"  a region both hasContent and extractPostContent list,       *)
(*   "actor"   a region only hasContent lists (actor description),         *)
(*   "generic" a plain span/p/div,                                         *)
(*   "none"    the post has no text.                                       *)
(* A text is its first idSliceLength characters (pre) followed by the rest *)
(* (suf, 0 when the text is not longer than the slice).                    *)
(***************************************************************************)
NoText == [region |-> "none", len |-> 0, pre |-> 0, suf |-> 0]
TextA == [region |-> "common", len |-> 60, pre |-> 1, suf |-> 1]
TextA2 == [region |-> "common", len |-> 60, pre |-> 1, suf |-> 2]
TextB == [region |-> "common", len |-> 35, pre |-> 2, suf |-> 0]

Placeholder == [kind |-> "placeholder", len |-> 13, pre |-> 0, suf |-> 0]

\* extractPostContent: the text found, or the placeholder 'LinkedIn post'.
extractPostContent(post) ==
    LET t == post.text IN
    IF t.region = "common" /\ t.len > extractMinLength
        THEN [kind |-> "text", len |-> t.len, pre |-> t.pre, suf |-> t.suf]
    ELSE IF t.region # "none" /\ t.len > sweepMinLength
        THEN [kind |-> "text", len |-> t.len, pre |-> t.pre, suf |-> t.suf]
    ELSE Placeholder

\* hasContent: text of at least minContentLength in a content region, or media.
hasContent(post) ==
    \/ post.text.region \in {"common", "actor"} /\ post.text.len >= minContentLength
    \/ post.media

\* isCommentable: a comment button or a comment section inside the post.
isCommentable(post) == post.commentable

\* Classes of the post elements, as numbers (they are part of an identity).
ClsUpdate == 1     \* .feed-shared-update-v2
ClsArticle == 2    \* .feed-shared-article

\* document.querySelectorAll('.feed-shared-update-v2, .occludable-update')
\* .indexOf(post): position among the update elements, -1 when not one.
RECURSIVE CountUpdates(_, _)
CountUpdates(f, n) ==
    IF n = 0 THEN 0
    ELSE CountUpdates(f, n - 1) + (IF f[n].cls = ClsUpdate THEN 1 ELSE 0)

postIndex(f, i) ==
    IF f[i].cls = ClsUpdate THEN CountUpdates(f, i - 1) ELSE -1

\* content.slice(0, 40): the characters after the 40th are dropped.
Slice(content) ==
    [content EXCEPT !.len = Min(content.len, idSliceLength), !.suf = 0]

\* getPostId: urn, then id, then the first 40 characters of the extracted
\* text unless it is the placeholder, then class list and position.
getPostId(f, i) ==
    LET post == f[i]
        uniqueText == Slice(extractPostContent(post))
    IN  IF post.urn # 0 THEN <<"urn", post.urn, 0>>
        ELSE IF post.domId # 0 THEN <<"id", post.domId, 0>>
        ELSE IF uniqueText.kind = "text" THEN <<"content", uniqueText.pre, uniqueText.suf>>
        ELSE <<"post", post.cls, postIndex(f, i)>>


(***************************************************************************)
(* Trigger controls.  A control is the injected wrapper with its button:   *)
(* tag is the wrapper's data-lcg-post-id, wrap the wrapper the injector    *)
(* built (li or div next to the action bar, or the fallback div), hidden   *)
(* the button's display: none.                                             *)
(***************************************************************************)
Control(id, w) == [tag |-> id, wrap |-> w, hidden |-> FALSE]

\* Action bar of a post: none visible, visible without a comment-like
\* control, visible with one (content.js:1449-1469).
BarNone == 0
BarPlain == 1
BarComment == 2

\* The wrapper the placement cascade builds: tier 1 next to the comment
\* control, tier 2 appended to the action bar, tier 3 at the post's bottom.
Placement(post) ==
    IF post.bar = BarComment THEN "li"
    ELSE IF post.bar = BarPlain THEN "div"
    ELSE "fallback"

\* The two checks that keep a post from getting a control twice
\* (content.js:1419 and 1434).
\* Variant: the Processed-Set check never skips.
MutNeverProcessed(processed, id) == FALSE
AlreadyProcessed(processed, id) == id \in processed

\* Variant: the defensive look for an existing control finds nothing.
MutHasButtonNever(post) == FALSE
HasButton(post) == post.ctrls # <<>>

\* document.querySelectorAll over postSelectors, in selector order, made
\* unique: the update elements in document order, then the article elements.
ScanOrder(f) ==
    LET idx == [i \in 1..Len(f) |-> i]
        IsUpd(i) == f[i].cls = ClsUpdate
        IsArt(i) == f[i].cls = ClsArticle
    IN  SelectSeq(idx, IsUpd) \o SelectSeq(idx, IsArt)

\* "Skip if not commentable", "Skip if no content": the callback returns.
\* Variant: the skipped post's identity is put into the Processed-Set.
MutSkipRecords(st, postId) == [st EXCEPT !.processed = @ \cup {postId}]
Skipped(st, postId) == st

\* The body of allPosts.forEach for one post; st = [feed, processed, added].
ProcessPost(st, i) ==
    LET post == st.feed[i]
        postId == getPostId(st.feed, i)
    IN  IF AlreadyProcessed(st.processed, postId) THEN st
        ELSE IF ~isCommentable(post) THEN Skipped(st, postId)
        ELSE IF ~hasContent(post) THEN Skipped(st, postId)
        ELSE IF HasButton(post)
            THEN [st EXCEPT !.processed = @ \cup {postId}]
        ELSE [feed |-> [st.feed EXCEPT ![i].ctrls =
                            Append(@, Control(postId, Placement(post)))],
              processed |-> st.processed \cup {postId},
              added |-> st.added + 1]

\* allPosts.forEach: the posts are processed one after the other, each on
\* the state the previous one left.
RECURSIVE ProcessAll(_, _)
ProcessAll(st, order) ==
    IF order = <<>> THEN st
    ELSE CHOOSE res \in { ProcessAll(next, Tail(order)) :
                            next \in {ProcessPost(st, Head(order))} } : TRUE

\* button.closest('.feed-shared-update-v2, .occludable-update, [data-urn],
\* .feed-shared-update, .artdeco-card') finds the post itself when it is an
\* update element or carries data-urn, and nothing otherwise.
HasClosestPost(post) == post.cls = ClsUpdate \/ post.urn # 0

\* First loop of cleanupDuplicateButtons: control k of post i is kept when
\* it is the first control, in document order, of its identity group.
\* Variant: the last control of a group is kept instead of the first.
MutKeepLast(f, i, k) ==
    \/ ~HasClosestPost(f[i])
    \/ /\ k = Len(f[i].ctrls)
       /\ \A j \in (i + 1)..Len(f) :
            ~(HasClosestPost(f[j]) /\ f[j].ctrls # <<>>
              /\ getPostId(f, j) = getPostId(f, i))
KeepFirst(f, i, k) ==
    \/ ~HasClosestPost(f[i])
    \/ /\ k = 1
       /\ \A j \in 1..(i - 1) :
            ~(HasClosestPost(f[j]) /\ f[j].ctrls # <<>>
              /\ getPostId(f, j) = getPostId(f, i))

\* Second loop: the control of a post that is not commentable or has no
\* content is removed.
KeepEligible(post) ==
    ~HasClosestPost(post) \/ (isCommentable(post) /\ hasContent(post))

RECURSIVE KeptCtrls(_, _, _)
KeptCtrls(f, i, k) ==
    IF k > Len(f[i].ctrls) THEN <<>>
    ELSE (IF KeepFirst(f, i, k) /\ KeepEligible(f[i])
            THEN <<f[i].ctrls[k]>> ELSE <<>>) \o KeptCtrls(f, i, k + 1)

cleanupDuplicateButtons(f) ==
    [i \in 1..Len(f) |-> [f[i] EXCEPT !.ctrls = KeptCtrls(f, i, 1)]]

\* The cleanup removes a fallback wrapper from an update element: a
\* mutation whose target carries the class feed-shared-update-v2.
RemovesFromUpdate(f) ==
    \E i \in 1..Len(f) :
        /\ f[i].cls = ClsUpdate
        /\ \E k \in 1..Len(f[i].ctrls) :
              /\ f[i].ctrls[k].wrap = "fallback"
              /\ ~(KeepFirst(f, i, k) /\ KeepEligible(f[i]))

\* addButtonsToPosts: cleanup, scan, then the per-post loop.
addButtonsToPosts(f, processed) ==
    CHOOSE res \in
        { ProcessAll([feed |-> cleaned, processed |-> processed, added |-> 0],
                     ScanOrder(cleaned)) :
            cleaned \in {cleanupDuplicateButtons(f)} } : TRUE

\* addButtonsToPosts when an exception is thrown inside its try block after
\* the first n posts of the scan were processed: the catch ends the pass.
abandonedAfter(f, processed, n) ==
    CHOOSE res \in
        { ProcessAll([feed |-> cleaned, processed |-> processed, added |-> 0],
                     SubSeq(ScanOrder(cleaned), 1, n)) :
            cleaned \in {cleanupDuplicateButtons(f)} } : TRUE

\* The ways a pass can end: it completes, or it is abandoned because
\* document.querySelectorAll throws for a selector of postSelectors, before
\* any post is processed ("scan"), or because the callback of
\* allPosts.forEach throws at some post ("loop").
Completed(f, processed) ==
    {[res |-> addButtonsToPosts(f, processed), thrown |-> "none"]}
Abandoned(f, processed) ==
    {[res |-> abandonedAfter(f, processed, 0), thrown |-> "scan"]}
    \cup {[res |-> abandonedAfter(f, processed, n), thrown |-> "loop"] :
            n \in 0..(Len(f) - 1)}

\* catch (error) { debug.error('Error adding buttons', error); }
\* Variant: the exception leaves addButtonsToPosts.
MutPassErrorEscapes(thrown, before) ==
    IF thrown = "none" THEN "complete" ELSE "uncaught"
PassResult(thrown, before) ==
    CASE thrown = "scan" -> "scanFailed"
      [] thrown = "loop" -> "abandoned"
      [] OTHER -> IF before \in {"scanFailed", "abandoned"}
                    THEN "resumed" ELSE "complete"


(***************************************************************************)
(* The comment UI (createCommentUI).  Its descendants in document order,   *)
(* as querySelector sees them: the close button is appended first and the  *)
(* Generate button last (content.js:1296-1304).                            *)
(***************************************************************************)
CommentUIChildren ==
    << [tag |-> "button", text |-> "", role |-> "close"],
       [tag |-> "h3", text |-> "Generate Comment", role |-> "heading"],
       [tag |-> "select", text |-> "", role |-> "tone"],
       [tag |-> "select", text |-> "", role |-> "model"],
       [tag |-> "textarea", text |-> "", role |-> "commentBox"],
       [tag |-> "button", text |-> "", role |-> "copy"],
       [tag |-> "input", text |-> "", role |-> "hint"],
       [tag |-> "div", text |-> "copy note", role |-> "copyNote"],
       [tag |-> "button", text |-> "Generate", role |-> "regenerate"] >>

\* commentUI.querySelector('button'): the first button in document order.
RECURSIVE FirstButton(_)
FirstButton(children) ==
    IF children = <<>> THEN [tag |-> "none", text |-> "", role |-> "none"]
    ELSE IF Head(children).tag = "button" THEN Head(children)
    ELSE FirstButton(Tail(children))

\* The click handler's auto-generate test (content.js:1518-1521).
AutoGenerates ==
    LET regenerateBtn == FirstButton(CommentUIChildren)
    IN  regenerateBtn.tag = "button" /\ regenerateBtn.text = "Generate"

\* activeCommentUI: el is the post element the UI was opened for (0: null),
\* box the value of its read-only comment box, busy whether its Generate
\* button is disabled because a request of this UI is in flight.
\* req is the post text the UI's last generation request carried.
NoRequest == [kind |-> "none", len |-> 0, pre |-> 0, suf |-> 0]
NoUI ==
    [el |-> 0, box |-> "empty", busy |-> FALSE, req |-> NoRequest,
     copied |-> "none"]

\* MutationObserver callback (content.js:3468-3482): one more 500 ms timeout
\* when the batch of mutations has added nodes.
ObserverCallback(timers, hasRelevantChanges) ==
    IF hasRelevantChanges THEN Min(timers + 1, MaxTimers) ELSE timers

(***************************************************************************)
(* Posts the host page renders.                                            *)
(***************************************************************************)
Shape(c, u, d, t, m, co, b) ==
    [cls |-> c, urn |-> u, domId |-> d, text |-> t, media |-> m,
     commentable |-> co, bar |-> b]

PostShapes ==
    { Shape(ClsUpdate, TRUE, FALSE, TextA, FALSE, TRUE, BarComment),
      Shape(ClsUpdate, FALSE, FALSE, TextA2, FALSE, TRUE, BarComment),
      Shape(ClsUpdate, FALSE, FALSE, NoText, TRUE, TRUE, BarNone),
      Shape(ClsArticle, FALSE, TRUE, TextB, FALSE, TRUE, BarPlain) }

EditTexts == {NoText, TextA}

NewPost(e, sh) ==
    [el |-> e, cls |-> sh.cls,
     urn |-> IF sh.urn THEN e ELSE 0,
     domId |-> IF sh.domId THEN e ELSE 0,
     text |-> sh.text, media |-> sh.media, commentable |-> sh.commentable,
     bar |-> sh.bar, ctrls |-> <<>>]

InsertAt(f, k, x) == SubSeq(f, 1, k - 1) \o <<x>> \o SubSeq(f, k, Len(f))
RemoveAt(f, k) == SubSeq(f, 1, k - 1) \o SubSeq(f, k + 1, Len(f))

(***************************************************************************)
(* hasContent on the elements of a post (content.js:545-591).  An element  *)
(* of a post is described by the selector list that reaches it and by its  *)
(* text: pad white-space characters around core other characters.          *)
(*   "common"  a region both hasContent and extractPostContent list,       *)
(*   "actor"   a region only hasContent lists,                             *)
(*   "generic" a plain span/p/div,                                         *)
(*   "media"   an element one of the media selectors matches,              *)
(*   "img"     an image no media selector matches.                         *)
(***************************************************************************)
MaxPostElements == 2   \* elements of the post that is classified

contentSelectors == <<"common", "actor">>
mediaSelectors == <<"media">>

ElementKinds == {"common", "actor", "generic", "media", "img"}
CoreLengths ==
    {0, minContentLength - 1, minContentLength, minContentLength + 1,
     sweepMinLength + 1}
PadLengths == {0, 5}

PostElements == [kind : ElementKinds, core : CoreLengths, pad : PadLengths]

\* element.textContent.length and element.textContent.trim().length
MutNoTrim(e) == e.pad + e.core
TrimmedLength(e) == e.core

MutLongerThanMin(len) == len > minContentLength
LongEnough(len) == len >= minContentLength

\* post.querySelectorAll(selector), in document order
RECURSIVE querySelectorAll(_, _)
querySelectorAll(els, selector) ==
    IF els = <<>> THEN <<>>
    ELSE (IF Head(els).kind = selector THEN <<Head(els)>> ELSE <<>>)
            \o querySelectorAll(Tail(els), selector)

\* inner loop of hasContent: some element has trimmed text long enough
RECURSIVE AnyLongEnough(_)
AnyLongEnough(matched) ==
    IF matched = <<>> THEN FALSE
    ELSE IF LongEnough(TrimmedLength(Head(matched))) THEN TRUE
    ELSE AnyLongEnough(Tail(matched))

\* outer loops of hasContent: the selectors of a list, one after the other
RECURSIVE AnyTextSelector(_, _)
AnyTextSelector(els, selectors) ==
    IF selectors = <<>> THEN FALSE
    ELSE IF AnyLongEnough(querySelectorAll(els, Head(selectors))) THEN TRUE
    ELSE AnyTextSelector(els, Tail(selectors))

RECURSIVE AnyMediaSelector(_, _)
AnyMediaSelector(els, selectors) ==
    IF selectors = <<>> THEN FALSE
    ELSE IF querySelectorAll(els, Head(selectors)) # <<>> THEN TRUE
    ELSE AnyMediaSelector(els, Tail(selectors))

hasContentOfElements(els) ==
    IF AnyTextSelector(els, contentSelectors) THEN TRUE
    ELSE IF AnyMediaSelector(els, mediaSelectors) THEN TRUE
    ELSE FALSE

\* extractPostContent on the elements of a post (content.js:594-643): the
\* first text longer than min among the matched elements, if there is one.
RECURSIVE AnyLonger(_, _)
AnyLonger(matched, min) ==
    IF matched = <<>> THEN FALSE
    ELSE IF TrimmedLength(Head(matched)) > min THEN TRUE
    ELSE AnyLonger(Tail(matched), min)

\* post.querySelectorAll('span, p, div'): the text-bearing elements.
SweepElements(els) ==
    LET TextBearing(e) == e.kind \in {"common", "actor", "generic"}
    IN  SelectSeq(els, TextBearing)

extractOfElements(els) ==
    IF AnyLonger(querySelectorAll(els, "common"), extractMinLength)
        THEN "text"
    ELSE IF AnyLonger(SweepElements(els), sweepMinLength) THEN "text"
    ELSE "placeholder"

NotEvaluated ==
    [els |-> <<>>, done |-> FALSE, result |-> FALSE, extracted |-> "none"]

(***************************************************************************)
(* The insertion routines (content.js:1725-3388).  The comment box of the  *)
(* host page is described by its text relative to the comment to insert:   *)
(*   "empty"    no text,                                                   *)
(*   "other"    text that does not contain the comment's first 10          *)
(*              characters,                                                *)
(*   "comment"  exactly the comment,                                       *)
(*   "partial"  text that contains the comment's first 20 characters and   *)
(*              is not the comment,                                        *)
(*   "short"    text that contains the comment's first 10 characters and   *)
(*              not its first 20.                                          *)
(* What a technique does to the box is the host page's answer: nothing     *)
(* ("noop"), the whole comment ("exact"), a text that only starts like     *)
(* the comment ("partial", "short"), or an exception ("throws").           *)
(***************************************************************************)
Routines ==
    {"pasteComment", "directCommentInsertion", "simpleTypeComment",
     "forceCommentInsertion", "ultraForceCommentInsertion"}

\* The insertion methods of a routine, in the order the routine tries them.
Techniques(routine) ==
    CASE routine = "simpleTypeComment" -> <<"typing">>
      [] routine = "forceCommentInsertion" ->
            <<"assign", "execCommand", "typing">>
      [] routine = "ultraForceCommentInsertion" ->
            <<"clipboard", "assign", "execCommand", "typing", "textNode">>
      [] routine = "pasteComment" ->
            <<"clipboard", "assign", "inputEvent", "typing">>
      [] routine = "directCommentInsertion" ->
            <<"innerHTML", "assign", "wordByWord", "selection">>

\* The methods whose effect the routine checks before it goes on.
CheckedTechniques(routine) ==
    CASE routine = "simpleTypeComment" -> {}
      [] routine = "forceCommentInsertion" -> {1, 2}
      [] routine = "ultraForceCommentInsertion" -> {1, 2, 3, 4, 5}
      [] routine = "pasteComment" -> {1, 2, 3, 4}
      [] routine = "directCommentInsertion" -> {1, 2, 3, 4}

\* Step 1 of simpleTypeComment and forceCommentInsertion returns false when
\* no visible comment button was clicked; the other routines go on.
NeedsAffordance(routine) ==
    routine \in {"simpleTypeComment", "forceCommentInsertion"}

\* directCommentInsertion returns false when the page has no comment section.
NeedsSection(routine) == routine = "directCommentInsertion"

\* pasteComment, directCommentInsertion and ultraForceCommentInsertion
\* return false when no method passed its check; simpleTypeComment and
\* forceCommentInsertion go on to the submission.
FailsWhenExhausted(routine) ==
    routine \in {"pasteComment", "directCommentInsertion",
                 "ultraForceCommentInsertion"}

\* The methods of every routine but forceCommentInsertion run inside a
\* try/catch of their own: an exception there only fails the method.
TechniqueGuarded(routine) == routine # "forceCommentInsertion"

\* Every routine is one try block whose catch returns false.
\* Variant: the exception leaves the routine.
MutNoBoundaryCatch(routine) == FALSE
CatchesAtBoundary(routine) == TRUE

\* pasteComment clicks a post button only; the other routines simulate
\* Enter when they find no post button.
EnterFallback(routine) == routine # "pasteComment"

\* The click activations a routine delivers to the post button it found:
\* postButton.click(), and in ultraForceCommentInsertion a dispatched
\* MouseEvent('click') after it.
ClickActivations(routine) ==
    IF routine = "ultraForceCommentInsertion" THEN 2 ELSE 1

\* ultraForceCommentInsertion clicks inside a try/catch and goes on to the
\* Enter fallback when the click threw.
ClickGuarded(routine) == routine = "ultraForceCommentInsertion"

\* The Enter keydown events of the fallback, by modifier, in order.
\* Variant: the plain Enter keydown only.
MutPlainEnterOnly(routine) == <<"plain">>
EnterVariants(routine) ==
    CASE routine = "ultraForceCommentInsertion" ->
            <<"plain", "ctrl", "shift", "meta">>
      [] routine = "directCommentInsertion" -> <<"plain">>
      [] routine = "pasteComment" -> <<>>
      [] OTHER -> <<"plain", "ctrl", "shift">>

\* The first element of the document that matches a comment-box selector:
\* whether it is rendered (offsetParent non-null), whether it is the
\* active element after focus(), whether it is contentEditable.
BoxCandidates ==
    [visible : BOOLEAN, focused : BOOLEAN, editable : BOOLEAN]

NoBox == [visible |-> FALSE, focused |-> FALSE, editable |-> FALSE]

\* The test a routine applies to a candidate before it takes it.
AcceptsBox(routine, el) ==
    CASE routine = "forceCommentInsertion" -> el.visible /\ el.focused
      [] routine = "ultraForceCommentInsertion" ->
            el.visible /\ (el.focused \/ el.editable)
      [] OTHER -> el.visible

MaxCommentLen == 2   \* characters of the comment to insert

\* for (let i = 0; i < comment.length; i++): the step of the typing loops.
\* Variant: the index does not advance.
MutIndexStuck(i) == i
NextIndex(i) == i + 1

Responses(technique) ==
    IF technique \in {"assign", "textNode", "innerHTML"}
        THEN {"noop", "exact", "throws"}
        ELSE {"noop", "exact", "partial", "short", "throws"}

\* The text of the box after a technique with the given response.
Effect(response, text) ==
    CASE response = "noop" -> text
      [] response = "throws" -> text
      [] response = "exact" -> "comment"
      [] response = "partial" -> "partial"
      [] response = "short" -> "short"

\* commentBox.textContent.includes(comment.substring(0, 10))
MutCheckAlwaysPasses(text) == TRUE
PostCheck(text) == text \in {"comment", "partial", "short"}

\* The check a routine applies after its k-th method.
\* Variant: every routine looks for the whole comment.
MutWholeCommentCheck(routine, k, text) == text = "comment"
MethodCheck(routine, k, text) ==
    CASE routine = "pasteComment" -> text # "empty"
      [] routine = "directCommentInsertion" ->
            IF k <= 2 THEN text = "comment"
                      ELSE text \in {"comment", "partial"}
      [] OTHER -> PostCheck(text)

\* The events a method dispatches on the box while it runs.
TechniqueEvents(routine, technique) ==
    CASE routine = "pasteComment" ->
            (CASE technique = "clipboard" -> {"keydown"}
               [] technique = "assign" -> {}
               [] technique = "inputEvent" -> {"input"}
               [] technique = "typing" ->
                    {"keydown", "beforeinput", "keyup", "input"})
      [] routine = "directCommentInsertion" ->
            (IF technique = "wordByWord" THEN {"input"} ELSE {})
      [] routine = "simpleTypeComment" ->
            {"keydown", "beforeinput", "input", "keyup", "change"}
      [] routine = "forceCommentInsertion" ->
            (IF technique = "assign" THEN {"input", "change"} ELSE {})
      [] routine = "ultraForceCommentInsertion" ->
            (CASE technique = "clipboard" -> {"keydown"}
               [] technique \in {"assign", "textNode"} -> {"input", "change"}
               [] technique = "execCommand" -> {}
               [] technique = "typing" ->
                    {"keydown", "beforeinput", "input", "keyup"})

\* The events a routine dispatches on the box once its cascade is over.
SettleEvents(routine, success) ==
    CASE routine = "pasteComment" -> {"input", "change", "blur", "focus"}
      [] routine = "directCommentInsertion" ->
            (IF success THEN {"input", "change", "keyup", "blur", "focus"}
                        ELSE {})
      [] OTHER -> {}

NotInvoked ==
    [routine |-> "none", pc |-> "idle", clicked |-> FALSE,
     len |-> 0, typed |-> 0,
     located |-> "unknown", box |-> NoBox, draft |-> "none", text |-> "none", next |-> 0,
     tried |-> <<>>, textInserted |-> FALSE, events |-> {},
     thrown |-> "none", submit |-> "none", clicks |-> 0, enters |-> <<>>,
     result |-> "none"]

Returned(i, value) == [i EXCEPT !.pc = "returned", !.result = value]

\* An exception outside the methods' own try/catch: the routine's catch
\* logs it and returns false.
Raised(i, step) ==
    LET t == [i EXCEPT !.thrown = step]
    IN  IF CatchesAtBoundary(i.routine) THEN Returned(t, "false")
                                       ELSE Returned(t, "rejected")

(***************************************************************************)
(* generateCommentAPI (content.js:183-293).                                *)
(***************************************************************************)
MaxGatewayCalls == 2   \* calls of generateCommentAPI in a page lifetime

MAX_RETRIES == 2       \* API_CONFIG.MAX_RETRIES
BackoffBaseMs == 1000  \* 1000 * Math.pow(2, retries)

\* How a fetch ends: the timeout aborts it, the network fails it, or it
\* resolves with a response whose status is 2xx or not.
FetchRejections == {"AbortError", "TypeError"}
FetchOutcomes == FetchRejections \cup {"ok", "notOk"}

\* What response.json() gives for a 2xx response.
BodyOutcomes == {"comment", "noComment", "invalidJson"}

MutLinearBackoff(retries) == BackoffBaseMs * retries
BackoffMs(retries) == BackoffBaseMs * 2^retries

MutRetryOnceMore(retries) == retries > MAX_RETRIES + 1
RetriesExceeded(retries) == retries > MAX_RETRIES

\* The error thrown when the retries are exceeded.
MutAlwaysTimeoutError(rejection) == "API request timed out"
ExhaustedError(rejection) ==
    IF rejection = "AbortError" THEN "API request timed out" ELSE rejection

NoCall ==
    [call |-> 0, pc |-> "idle", retries |-> 0, fetches |-> <<>>,
     waits |-> <<>>, result |-> "none", error |-> "none"]

Resolved(g, comment) == [g EXCEPT !.pc = "settled", !.result = comment]
Rejected(g, error) == [g EXCEPT !.pc = "settled", !.error = error]

(***************************************************************************)
(* The message listeners (background.js:29-67, content.js:3508-3545).      *)
(***************************************************************************)
MaxMessages == 2   \* messages a listener receives in a page lifetime

BackgroundActions ==
    {"generateComment", "checkPermissions", "getExtensionInfo", "other"}

\* How the fetch of sendOpenAIRequest ends.
OpenAIFetchOutcomes == {"TypeError", "ok", "notOk"}

\* The JSON body of a 2xx answer: with choices[0].message.content, not
\* JSON at all, JSON without choices, or JSON whose message has no content.
OpenAIBodies == {"wellFormed", "invalidJson", "noChoices", "noContent"}

CommentResponse(value) == [kind |-> "comment", value |-> value]
ErrorResponse(message) == [kind |-> "error", value |-> message]
ResultResponse(success) == [kind |-> "result", value |-> success]

\* data.choices[0].message.content of sendOpenAIRequest, handed to
\* sendResponse by the listener's then/catch.
MutBodyAlwaysComment(body) == CommentResponse("text")
OpenAIResponse(body) ==
    CASE body = "wellFormed" -> CommentResponse("text")
      [] body = "invalidJson" -> ErrorResponse("SyntaxError")
      [] body = "noChoices" -> ErrorResponse("TypeError")
      [] body = "noContent" -> CommentResponse("undefined")

NoMessage ==
    [handled |-> 0, pc |-> "idle", action |-> "none", payload |-> "none",
     fetch |-> "none", body |-> "none", responses |-> <<>>]

\* sendResponse(r), after which the handling of the message is over.
Responded(b, r) == [b EXCEPT !.pc = "done", !.responses = Append(@, r)]

\* The actions the listener tests for, the generateComment action the popup
\* sends (popup: chrome.tabs.sendMessage), and any other action.
ContentActions ==
    {"pasteComment", "diagnose", "getSelectedPost", "generateComment", "other"}

\* content.js calls findCurrentPost and defines no function of that name:
\* the call throws a ReferenceError.
findCurrentPostDefined == FALSE

\* findCurrentPost(), were it defined: the current post of the page.
CurrentPost(f) == IF f = <<>> THEN 0 ELSE 1

NoneAnswered ==
    [handled |-> 0, action |-> "none", posts |-> 0, responses |-> <<>>]

(***************************************************************************)
(* Two invocations of forceCommentInsertion / ultraForceCommentInsertion   *)
(* on one document (content.js:2593-3388).  The document has two posts in  *)
(* document order, each with a comment button and a comment box; the       *)
(* invocation numbered i was started to comment on post i and inserts      *)
(* the comment numbered i.  The routines take the comment only and search  *)
(* the whole document.                                                     *)
(***************************************************************************)
InsertPosts == {1, 2}

OverlapRoutines == {"forceCommentInsertion", "ultraForceCommentInsertion"}

NotStarted == [routine |-> "none", pc |-> "idle", box |-> 0, result |-> "none"]

NoInvocations ==
    [buttons |-> {}, open |-> {},
     boxes |-> [p \in InsertPosts |-> 0],
     inv |-> [i \in InsertPosts |-> NotStarted],
     submitted |-> <<>>]

\* The first element of a querySelectorAll result that is visible: the
\* first post, in document order, of the set.
FirstVisible(posts) == CHOOSE p \in posts : \A q \in posts : p <= q

UnitIdle ==
    /\ hc = NotEvaluated
    /\ ins = NotInvoked
    /\ gw = NoCall
    /\ bg = NoMessage
    /\ cm = NoneAnswered
    /\ ov = NoInvocations

PageInit ==
    /\ feed = <<>>
    /\ nextEl = 1
    /\ hostSteps = 0
    /\ processedPostIds = {}
    /\ activeCommentUI = NoUI
    /\ startupPending = TRUE
    /\ mutTimers = 0
    /\ streak = 0
    /\ buttonsAdded = 0
    /\ lastPass = "none"
    /\ apiCalls = 0
    /\ insertCalls = 0

Init == PageInit /\ UnitIdle

HostStep ==
    /\ hostSteps < MaxHostSteps
    /\ hostSteps' = hostSteps + 1
    /\ streak' = 0
    /\ buttonsAdded' = 0
    /\ UNCHANGED <<processedPostIds, activeCommentUI, startupPending,
                   lastPass, apiCalls, insertCalls>>
    /\ UNCHANGED unitVars

\* The host page renders a new post at the top or at the bottom of the feed.
HostAddPost ==
    /\ nextEl <= MaxElems
    /\ \E sh \in PostShapes, k \in {1, Len(feed) + 1} :
          feed' = InsertAt(feed, k, NewPost(nextEl, sh))
    /\ nextEl' = nextEl + 1
    /\ mutTimers' = ObserverCallback(mutTimers, TRUE)
    /\ HostStep

\* The host page removes a post, with everything injected into it.
HostRemovePost ==
    /\ \E k \in 1..Len(feed) : feed' = RemoveAt(feed, k)
    /\ mutTimers' = ObserverCallback(mutTimers, FALSE)
    /\ UNCHANGED nextEl
    /\ HostStep

\* The host page re-renders the text of a post.
HostEditText ==
    /\ \E k \in 1..Len(feed), t \in EditTexts :
          /\ feed[k].text # t
          /\ feed' = [feed EXCEPT ![k].text = t]
          /\ mutTimers' = ObserverCallback(mutTimers, t # NoText)
    /\ UNCHANGED nextEl
    /\ HostStep

\* The host page adds or removes the comment affordance of a post.
HostToggleCommentable ==
    /\ \E k \in 1..Len(feed) :
          /\ feed' = [feed EXCEPT ![k].commentable = ~@]
          /\ mutTimers' = ObserverCallback(mutTimers, ~feed[k].commentable)
    /\ UNCHANGED nextEl
    /\ HostStep

\* One pass of addButtonsToPosts with result r, followed by the observer's
\* callback for the nodes the callback added.
Pass(o, timers, ownNode) ==
    /\ feed' = o.res.feed
    /\ processedPostIds' = o.res.processed
    /\ buttonsAdded' = o.res.added
    /\ lastPass' = PassResult(o.thrown, lastPass)
    /\ mutTimers' = ObserverCallback(timers,
                        \/ ownNode /\ lastPass' # "uncaught"
                        \/ o.res.added > 0
                        \/ RemovesFromUpdate(feed))
    /\ streak' = IF o.thrown = "none" THEN Min(streak + 1, 2) ELSE 0
    /\ UNCHANGED <<nextEl, hostSteps, activeCommentUI, apiCalls, insertCalls>>
    /\ UNCHANGED unitVars

\* The setTimeout(..., 2000) of initialize: a pass, then the marker div.
StartupPass ==
    /\ startupPending
    /\ startupPending' = FALSE
    /\ \E o \in Completed(feed, processedPostIds) :
          Pass(o, mutTimers, TRUE)

\* The setInterval(..., 3000) of setupMutationObserver.
IntervalPass ==
    /\ \E o \in Completed(feed, processedPostIds) :
          Pass(o, mutTimers, FALSE)
    /\ UNCHANGED startupPending

\* One of the observer's setTimeout(..., 500) fires.
MutationPass ==
    /\ mutTimers > 0
    /\ \E o \in Completed(feed, processedPostIds) :
          Pass(o, mutTimers - 1, FALSE)
    /\ UNCHANGED startupPending

\* The startup pass and an interval pass in which an exception is thrown.
StartupPassThrows ==
    /\ startupPending
    /\ startupPending' = FALSE
    /\ \E o \in Abandoned(feed, processedPostIds) :
          Pass(o, mutTimers, TRUE)

IntervalPassThrows ==
    /\ \E o \in Abandoned(feed, processedPostIds) :
          Pass(o, mutTimers, FALSE)
    /\ UNCHANGED startupPending


(***************************************************************************)
(* The click flow.                                                         *)
(***************************************************************************)
PostOf(e) == CHOOSE k \in 1..Len(feed) : feed[k].el = e
InFeed(e) == \E k \in 1..Len(feed) : feed[k].el = e

SetHidden(ctrls, h) == [k \in 1..Len(ctrls) |-> [ctrls[k] EXCEPT !.hidden = h]]

\* Generate click handler up to its await (content.js:1263-1278): the post's
\* text is extracted, the box shows the loading text, the request is sent.
GenerateStarted(ui, post) ==
    [ui EXCEPT !.box = "analyzing", !.busy = TRUE,
               !.req = extractPostContent(post)]

UIStep ==
    /\ streak' = 0
    /\ buttonsAdded' = 0
    /\ UNCHANGED <<nextEl, hostSteps, processedPostIds, startupPending,
                   lastPass, insertCalls>>
    /\ UNCHANGED unitVars

\* Click on the trigger control of post k (content.js:1499-1522): the open
\* UI, if any, is removed; the control is hidden; a new UI is inserted and
\* its first button is clicked if it is the Generate button.
TriggerClick ==
    /\ \E k \in 1..Len(feed) :
          /\ feed[k].ctrls # <<>>
          /\ ~feed[k].ctrls[1].hidden
          /\ feed' = [feed EXCEPT ![k].ctrls = SetHidden(@, TRUE)]
          /\ LET opened == [NoUI EXCEPT !.el = feed[k].el]
             IN  IF AutoGenerates /\ apiCalls < MaxApiCalls
                   THEN /\ activeCommentUI' = GenerateStarted(opened, feed[k])
                        /\ apiCalls' = apiCalls + 1
                   ELSE /\ activeCommentUI' = opened
                        /\ UNCHANGED apiCalls
    /\ mutTimers' = ObserverCallback(mutTimers, TRUE)
    /\ UIStep

\* The user clicks Generate in the open UI.
GenerateClick ==
    /\ activeCommentUI.el # 0
    /\ InFeed(activeCommentUI.el)
    /\ ~activeCommentUI.busy
    /\ apiCalls < MaxApiCalls
    /\ activeCommentUI' =
          GenerateStarted(activeCommentUI, feed[PostOf(activeCommentUI.el)])
    /\ apiCalls' = apiCalls + 1
    /\ UNCHANGED <<feed, mutTimers>>
    /\ UIStep

\* generateCommentAPI settles and the handler resumes (content.js:1278-1292):
\* the comment, or the error message, is written into the comment box.
GatewaySettle ==
    /\ activeCommentUI.busy
    /\ \E outcome \in {"comment", "error"} :
          activeCommentUI' = [activeCommentUI EXCEPT !.box = outcome,
                                                     !.busy = FALSE]
    /\ UNCHANGED <<feed, mutTimers, apiCalls>>
    /\ UIStep

\* if (!commentBox.value || commentBox.value === 'Generating comment...')
\* return; the box never holds that text: the loading text is
\* 'Analyzing Post...'.
CopyRefused(value) == value \in {"empty", "generating"}

\* Copy button of the UI (content.js:1129-1134): the text of the comment
\* box is written to the clipboard.  A click that writes the text written
\* last leaves the state as it is.
CopyClick ==
    /\ activeCommentUI.el # 0
    /\ InFeed(activeCommentUI.el)
    /\ ~CopyRefused(activeCommentUI.box)
    /\ activeCommentUI.copied # activeCommentUI.box
    /\ activeCommentUI' = [activeCommentUI EXCEPT !.copied = activeCommentUI.box]
    /\ UNCHANGED <<feed, mutTimers, apiCalls>>
    /\ UIStep

\* Close button of the UI (content.js:1253-1260).
CloseClick ==
    /\ activeCommentUI.el # 0
    /\ InFeed(activeCommentUI.el)
    /\ feed' = [feed EXCEPT ![PostOf(activeCommentUI.el)].ctrls =
                                SetHidden(@, FALSE)]
    /\ activeCommentUI' = NoUI
    /\ mutTimers' = ObserverCallback(mutTimers, FALSE)
    /\ UNCHANGED apiCalls
    /\ UIStep

\* The reconciliation loop against a feed the host page keeps changing.
Next ==
    \/ HostAddPost
    \/ HostRemovePost
    \/ HostEditText
    \/ HostToggleCommentable
    \/ StartupPass
    \/ IntervalPass
    \/ MutationPass

Spec == Init /\ [][Next]_vars

\* The reconciliation loop when passes can throw.
NextFaulty ==
    \/ HostAddPost
    \/ HostEditText
    \/ StartupPass
    \/ IntervalPass
    \/ StartupPassThrows
    \/ IntervalPassThrows

SpecFaulty == Init /\ [][NextFaulty]_vars

\* The click flow on a feed the host page only adds posts to.
NextUI ==
    \/ HostAddPost
    \/ IntervalPass
    \/ TriggerClick
    \/ GenerateClick
    \/ GatewaySettle
    \/ CopyClick
    \/ CloseClick

SpecUI == Init /\ [][NextUI]_vars


\* The interval timer keeps firing for the whole page lifetime.
FairSpec == Spec /\ WF_vars(IntervalPass)

\* Every timer that is set fires: the startup timeout, the observer's
\* timeouts and the interval.
FairPasses ==
    /\ Spec
    /\ WF_vars(StartupPass)
    /\ WF_vars(MutationPass)
    /\ WF_vars(IntervalPass)

(***************************************************************************)
(* hasContent evaluated once on a post drawn from the bounded set.         *)
(***************************************************************************)
PostsToClassify ==
    UNION { [1..n -> PostElements] : n \in 0..MaxPostElements }

InitHasContent ==
    /\ PageInit
    /\ ins = NotInvoked
    /\ gw = NoCall
    /\ bg = NoMessage
    /\ cm = NoneAnswered
    /\ ov = NoInvocations
    /\ \E els \in PostsToClassify : hc = [NotEvaluated EXCEPT !.els = els]

EvaluateHasContent ==
    /\ ~hc.done
    /\ hc' = [hc EXCEPT !.done = TRUE, !.result = hasContentOfElements(hc.els)]
    /\ UNCHANGED <<pageVars, ins, gw, bg, cm, ov>>

\* The Generate click on a post that passed the eligibility check: its
\* content is extracted for the request.
ExtractContent ==
    /\ hc.done
    /\ hc.result
    /\ hc.extracted = "none"
    /\ hc' = [hc EXCEPT !.extracted = extractOfElements(hc.els)]
    /\ UNCHANGED <<pageVars, ins, gw, bg, cm, ov>>

NextHasContent ==
    \/ EvaluateHasContent
    \/ ExtractContent

SpecHasContent == InitHasContent /\ [][NextHasContent]_vars

(***************************************************************************)
(* One invocation of an insertion routine against the host page.  The      *)
(* routine is suspended at its awaits; between two awaits it runs to       *)
(* completion.  The state of the host page that the routine reads (a       *)
(* visible comment button, a usable comment box, a post button) is the     *)
(* host page's choice at the moment the routine reads it.                  *)
(***************************************************************************)
\* Step 1: a visible comment button is clicked, if there is one.
InsertionActivate ==
    /\ ins.pc = "idle"
    /\ \E routine \in Routines, visible \in BOOLEAN, section \in BOOLEAN,
          throws \in BOOLEAN, len \in 1..MaxCommentLen :
          LET started == [ins EXCEPT !.routine = routine, !.clicked = visible,
                                     !.len = len]
          IN  ins' = IF throws THEN Raised(started, "activating")
                     ELSE IF ~section /\ NeedsSection(routine)
                        THEN Returned(started, "false")
                     ELSE IF ~visible /\ NeedsAffordance(routine)
                        THEN Returned(started, "false")
                     ELSE [started EXCEPT !.pc = "locating"]
    /\ UNCHANGED <<pageVars, hc, gw, bg, cm, ov>>

\* Step 2: the first visible, usable comment box is taken.
InsertionLocate ==
    /\ ins.pc = "locating"
    /\ \E el \in BoxCandidates, draft \in {"empty", "other"},
          throws \in BOOLEAN :
          ins' = IF throws THEN Raised(ins, "locating")
                 ELSE IF AcceptsBox(ins.routine, el)
                    THEN [ins EXCEPT !.pc = "clearing", !.located = "found",
                                     !.box = el,
                                     !.draft = draft, !.text = draft]
                    ELSE Returned([ins EXCEPT !.located = "missing"], "false")
    /\ UNCHANGED <<pageVars, hc, gw, bg, cm, ov>>

\* Step 3: the box is focused and its content is cleared.
InsertionClear ==
    /\ ins.pc = "clearing"
    /\ \E throws \in BOOLEAN :
          ins' = IF throws THEN Raised(ins, "clearing")
                 ELSE [ins EXCEPT !.pc = "inserting", !.text = "empty",
                                  !.next = 1]
    /\ UNCHANGED <<pageVars, hc, gw, bg, cm, ov>>

\* Step 4, per-character typing: one round of the loop over the comment's
\* characters, which awaits a timeout and types one character.
InsertionTypeCharacter ==
    /\ ins.pc = "inserting"
    /\ Techniques(ins.routine)[ins.next] = "typing"
    /\ ins.typed < ins.len
    /\ \E throws \in BOOLEAN :
          ins' = IF throws /\ ~TechniqueGuarded(ins.routine)
                    THEN Raised(ins, "inserting")
                    ELSE [ins EXCEPT !.typed = NextIndex(@)]
    /\ UNCHANGED <<pageVars, hc, gw, bg, cm, ov>>

\* Step 4: the next insertion method is applied and, where the routine
\* checks it, its effect is checked.
InsertionTechnique ==
    /\ ins.pc = "inserting"
    /\ Techniques(ins.routine)[ins.next] = "typing" => ins.typed >= ins.len
    /\ LET methods == Techniques(ins.routine)
           technique == methods[ins.next]
       IN  \E response \in Responses(technique) :
             LET text == Effect(response, ins.text)
                 passed == /\ response # "throws"
                           /\ ins.next \in CheckedTechniques(ins.routine)
                           /\ MethodCheck(ins.routine, ins.next, text)
                 last == passed \/ ins.next = Len(methods)
                 after == [ins EXCEPT
                             !.text = text,
                             !.tried = Append(@, [technique |-> technique,
                                                  response |-> response,
                                                  passed |-> passed]),
                             !.textInserted = passed,
                             !.typed = 0,
                             !.events =
                                (IF response = "throws" THEN {}
                                 ELSE TechniqueEvents(ins.routine, technique))
                                \cup (IF last
                                        THEN SettleEvents(ins.routine, passed)
                                        ELSE {})]
             IN  ins' =
                   IF response = "throws" /\ ~TechniqueGuarded(ins.routine)
                        THEN Raised(ins, "inserting")
                   ELSE IF passed THEN [after EXCEPT !.pc = "submitting"]
                   ELSE IF ins.next < Len(methods)
                        THEN [after EXCEPT !.next = @ + 1]
                   ELSE IF FailsWhenExhausted(ins.routine)
                        THEN Returned(after, "false")
                   ELSE [after EXCEPT !.pc = "submitting"]
    /\ UNCHANGED <<pageVars, hc, gw, bg, cm, ov>>

\* Steps 5 and 6: a related post button is clicked, or Enter is simulated;
\* the routine returns true.  An exception is thrown by the click on the
\* button (before or after the first activation) or elsewhere in the step.
InsertionSubmit ==
    /\ ins.pc = "submitting"
    /\ \E postButton \in BOOLEAN, throws \in {"no", "click", "elsewhere"},
          delivered \in {0, 1} :
          LET fallback == [ins EXCEPT
                             !.submit = IF EnterFallback(ins.routine)
                                           THEN "enter" ELSE "none",
                             !.enters = EnterVariants(ins.routine)]
          IN  ins' =
                IF throws = "elsewhere" THEN Raised(ins, "submitting")
                ELSE IF ~postButton THEN Returned(fallback, "true")
                ELSE IF throws = "no"
                    THEN Returned([ins EXCEPT
                                     !.submit = "button",
                                     !.clicks = ClickActivations(ins.routine)],
                                  "true")
                ELSE IF ClickGuarded(ins.routine)
                    THEN Returned([fallback EXCEPT !.clicks = delivered],
                                  "true")
                ELSE Raised([ins EXCEPT !.clicks = delivered], "submitting")
    /\ UNCHANGED <<pageVars, hc, gw, bg, cm, ov>>

(***************************************************************************)
(* The steps of two overlapping invocations; every await of a routine is   *)
(* a point at which the other one can run.                                 *)
(***************************************************************************)
InitOverlap ==
    /\ PageInit
    /\ hc = NotEvaluated
    /\ ins = NotInvoked
    /\ gw = NoCall
    /\ bg = NoMessage
    /\ cm = NoneAnswered
    /\ \E buttons \in SUBSET InsertPosts, open \in SUBSET InsertPosts :
          ov = [NoInvocations EXCEPT !.buttons = buttons, !.open = open]

OverlapFrame == UNCHANGED <<pageVars, hc, ins, gw, bg, cm>>

\* Step 1: the first visible comment button of the document is clicked,
\* which shows the comment box of that button's post.
OverlapActivate ==
    /\ \E i \in InsertPosts, routine \in OverlapRoutines :
          /\ ov.inv[i].pc = "idle"
          /\ ov' = IF ov.buttons = {}
                     THEN IF NeedsAffordance(routine)
                            THEN [ov EXCEPT !.inv[i].routine = routine,
                                            !.inv[i].pc = "returned",
                                            !.inv[i].result = "false"]
                            ELSE [ov EXCEPT !.inv[i].routine = routine,
                                            !.inv[i].pc = "locating"]
                     ELSE [ov EXCEPT !.inv[i].routine = routine,
                                     !.inv[i].pc = "locating",
                                     !.open = @ \cup {FirstVisible(ov.buttons)}]
    /\ OverlapFrame

\* Step 2: the first visible comment box of the document is taken.
OverlapLocate ==
    /\ \E i \in InsertPosts :
          /\ ov.inv[i].pc = "locating"
          /\ ov' = IF ov.open = {}
                     THEN [ov EXCEPT !.inv[i].pc = "returned",
                                     !.inv[i].result = "false"]
                     ELSE [ov EXCEPT !.inv[i].pc = "clearing",
                                     !.inv[i].box = FirstVisible(ov.open)]
    /\ OverlapFrame

\* Step 3: the box is focused and cleared.
OverlapClear ==
    /\ \E i \in InsertPosts :
          /\ ov.inv[i].pc = "clearing"
          /\ ov' = [ov EXCEPT !.inv[i].pc = "inserting",
                              !.boxes[ov.inv[i].box] = 0]
    /\ OverlapFrame

\* Step 4: commentBox.textContent = comment.
OverlapInsert ==
    /\ \E i \in InsertPosts :
          /\ ov.inv[i].pc = "inserting"
          /\ ov' = [ov EXCEPT !.inv[i].pc = "submitting",
                              !.boxes[ov.inv[i].box] = i]
    /\ OverlapFrame

\* Steps 5 and 6, after the settle delay: what the box holds is posted
\* under the box's post, and the routine returns true.
OverlapSubmit ==
    /\ \E i \in InsertPosts :
          /\ ov.inv[i].pc = "submitting"
          /\ ov' = [ov EXCEPT !.inv[i].pc = "returned",
                              !.inv[i].result = "true",
                              !.submitted =
                                  Append(@, [by |-> i, post |-> ov.inv[i].box,
                                             text |-> ov.boxes[ov.inv[i].box]]),
                              !.boxes[ov.inv[i].box] = 0]
    /\ OverlapFrame

NextOverlap ==
    \/ OverlapActivate
    \/ OverlapLocate
    \/ OverlapClear
    \/ OverlapInsert
    \/ OverlapSubmit

SpecOverlap == InitOverlap /\ [][NextOverlap]_vars

NextInsertion ==
    \/ InsertionActivate
    \/ InsertionLocate
    \/ InsertionClear
    \/ InsertionTypeCharacter
    \/ InsertionTechnique
    \/ InsertionSubmit

SpecInsertion == Init /\ [][NextInsertion]_vars

\* Every awaited timeout and clipboard promise of the routine settles.
FairInsertion == SpecInsertion /\ WF_vars(NextInsertion)

(***************************************************************************)
(* generateCommentAPI, call by call.  A call is suspended at its awaits:   *)
(* the fetch, the backoff delay and the reading of the body.               *)
(***************************************************************************)
\* The call up to its first fetch: user info, payload, retries = 0.
GatewayCall ==
    /\ gw.pc \in {"idle", "settled"}
    /\ gw.call < MaxGatewayCalls
    /\ gw' = [NoCall EXCEPT !.call = gw.call + 1, !.pc = "fetching"]
    /\ UNCHANGED <<pageVars, hc, ins, bg, cm, ov>>

\* The fetch settles (content.js:256-271): a response leaves the loop, a
\* rejection counts a retry and either throws or starts the backoff delay.
GatewayFetchSettles ==
    /\ gw.pc = "fetching"
    /\ \E outcome \in FetchOutcomes :
          LET g == [gw EXCEPT !.fetches = Append(@, outcome)]
              retries == gw.retries + 1
          IN  gw' =
                IF outcome \in FetchRejections
                  THEN IF RetriesExceeded(retries)
                         THEN Rejected([g EXCEPT !.retries = retries],
                                       ExhaustedError(outcome))
                         ELSE [g EXCEPT !.retries = retries,
                                        !.pc = "backoff",
                                        !.waits = Append(@, BackoffMs(retries))]
                ELSE IF outcome = "notOk"
                  THEN [g EXCEPT !.pc = "readingError"]
                ELSE [g EXCEPT !.pc = "readingBody"]
    /\ UNCHANGED <<pageVars, hc, ins, bg, cm, ov>>

\* The backoff delay elapses and the loop fetches again.
GatewayBackoffElapses ==
    /\ gw.pc = "backoff"
    /\ gw' = [gw EXCEPT !.pc = "fetching"]
    /\ UNCHANGED <<pageVars, hc, ins, bg, cm, ov>>

\* A non-2xx response (content.js:275-285): the error names the status,
\* with the body if it is JSON and the status text otherwise.
GatewayErrorBodySettles ==
    /\ gw.pc = "readingError"
    /\ \E json \in BOOLEAN :
          gw' = Rejected(gw, IF json THEN "API error: status - body"
                                     ELSE "API error: status - statusText")
    /\ UNCHANGED <<pageVars, hc, ins, bg, cm, ov>>

\* The body of a 2xx response (content.js:287-293).
GatewayBodySettles ==
    /\ gw.pc = "readingBody"
    /\ \E body \in BodyOutcomes :
          gw' = CASE body = "comment" -> Resolved(gw, "comment")
                  [] body = "noComment" ->
                        Rejected(gw, "API response missing comment field")
                  [] body = "invalidJson" -> Rejected(gw, "SyntaxError")
    /\ UNCHANGED <<pageVars, hc, ins, bg, cm, ov>>

NextGateway ==
    \/ GatewayCall
    \/ GatewayFetchSettles
    \/ GatewayBackoffElapses
    \/ GatewayErrorBodySettles
    \/ GatewayBodySettles

SpecGateway == Init /\ [][NextGateway]_vars

(***************************************************************************)
(* The message listeners.  The background listener handles one message at  *)
(* a time here; the content script's listener answers in one step.         *)
(***************************************************************************)
\* The background listener receives a message (background.js:29-67).  A
\* generateComment message without payload makes sendOpenAIRequest reject
\* when it destructures its parameter, and the catch answers.
BackgroundReceive ==
    /\ bg.pc \in {"idle", "done"}
    /\ bg.handled < MaxMessages
    /\ \E action \in BackgroundActions, payload \in {"present", "missing"} :
          LET b == [NoMessage EXCEPT !.handled = bg.handled + 1,
                                     !.action = action, !.payload = payload]
          IN  bg' =
                CASE action = "generateComment" ->
                        IF payload = "present"
                            THEN [b EXCEPT !.pc = "fetching"]
                            ELSE Responded(b, ErrorResponse("TypeError"))
                  [] action = "checkPermissions" -> [b EXCEPT !.pc = "checking"]
                  [] action = "getExtensionInfo" ->
                        Responded(b, ResultResponse(TRUE))
                  [] action = "other" -> [b EXCEPT !.pc = "done"]
    /\ UNCHANGED <<pageVars, hc, ins, gw, cm, ov>>

\* checkClipboardPermission settles (background.js:73-88).
BackgroundPermissionSettles ==
    /\ bg.pc = "checking"
    /\ \E granted \in BOOLEAN : bg' = Responded(bg, ResultResponse(granted))
    /\ UNCHANGED <<pageVars, hc, ins, gw, cm, ov>>

\* The fetch of sendOpenAIRequest settles (background.js:220-233).
BackgroundFetchSettles ==
    /\ bg.pc = "fetching"
    /\ \E outcome \in OpenAIFetchOutcomes :
          LET b == [bg EXCEPT !.fetch = outcome]
          IN  bg' = CASE outcome = "TypeError" ->
                            Responded(b, ErrorResponse("TypeError"))
                      [] outcome = "ok" -> [b EXCEPT !.pc = "readingBody"]
                      [] outcome = "notOk" -> [b EXCEPT !.pc = "readingError"]
    /\ UNCHANGED <<pageVars, hc, ins, gw, cm, ov>>

\* The body is read (background.js:235-241) and the listener's then or
\* catch calls sendResponse (background.js:34-36).
BackgroundBodySettles ==
    /\ \/ /\ bg.pc = "readingBody"
          /\ \E body \in OpenAIBodies :
                bg' = Responded([bg EXCEPT !.body = body], OpenAIResponse(body))
       \/ /\ bg.pc = "readingError"
          /\ bg' = Responded(bg, ErrorResponse("OpenAI API error"))
    /\ UNCHANGED <<pageVars, hc, ins, gw, cm, ov>>

\* The content script's listener handles a message (content.js:3508-3545).
ContentAnswer(action) ==
    CASE action = "pasteComment" ->
            <<[success |-> FALSE, content |-> Placeholder,
               error |-> "Direct comment pasting is not supported"]>>
      [] action = "diagnose" ->
            <<[success |-> TRUE, content |-> Placeholder, error |-> "none"]>>
      [] action = "getSelectedPost" ->
            IF ~findCurrentPostDefined
                THEN <<[success |-> FALSE, content |-> Placeholder,
                        error |-> "findCurrentPost is not defined"]>>
            ELSE IF CurrentPost(feed) # 0
                THEN <<[success |-> TRUE,
                        content |-> extractPostContent(feed[CurrentPost(feed)]),
                        error |-> "none"]>>
            ELSE <<[success |-> FALSE, content |-> Placeholder,
                    error |-> "No post found"]>>
      [] action \in {"generateComment", "other"} -> <<>>

ContentMessage ==
    /\ cm.handled < MaxMessages
    /\ \E action \in ContentActions :
          cm' = [handled |-> cm.handled + 1, action |-> action,
                 posts |-> Len(feed), responses |-> ContentAnswer(action)]
    /\ UNCHANGED <<pageVars, hc, ins, gw, bg, ov>>

NextMessages ==
    \/ HostAddPost
    \/ ContentMessage
    \/ BackgroundReceive
    \/ BackgroundPermissionSettles
    \/ BackgroundFetchSettles
    \/ BackgroundBodySettles

SpecMessages == Init /\ [][NextMessages]_vars

(***************************************************************************)
(* Properties.                                                             *)
(***************************************************************************)
Eligible(post) == isCommentable(post) /\ hasContent(post)

Posts(f) == 1..Len(f)
ElemIn(f, e) == \E k \in Posts(f) : f[k].el = e
IndexIn(f, e) == CHOOSE k \in Posts(f) : f[k].el = e
Elems == 1..MaxElems

\* C1: a pass of addButtonsToPosts that directly follows another pass, with
\* no change of the host page in between, adds no trigger control.
C1_Idempotent == streak = 2 => buttonsAdded = 0

C1_Witness ==
    /\ streak = 2
    /\ \E k \in Posts(feed) : Eligible(feed[k]) /\ Len(feed[k].ctrls) = 1

\* C2: whichever of the three triggers ran the passes, after a completed
\* pass no post holds more than one trigger control.
C2_AtMostOneControl ==
    streak >= 1 => \A k \in Posts(feed) : Len(feed[k].ctrls) <= 1

\* The startup pass has run, another pass has just followed a pass, and a
\* mutation timeout is still pending.
C2_Witness ==
    /\ ~startupPending
    /\ streak = 2
    /\ mutTimers > 0
    /\ \E k \in Posts(feed) : Len(feed[k].ctrls) = 1

\* C3: while the comment UI opened by a click on a trigger control is open,
\* a generation request for the post's extracted text has been issued.
C3_ClickIssuesRequest ==
    (activeCommentUI.el # 0 /\ ElemIn(feed, activeCommentUI.el)) =>
        activeCommentUI.req =
            extractPostContent(feed[IndexIn(feed, activeCommentUI.el)])

\* C4: when the gateway has returned a comment to the comment UI, an
\* insertion routine has been called.
C4_CommentIsInserted == activeCommentUI.box = "comment" => insertCalls > 0

\* C5: a post that from some time on is always in the feed, commentable and
\* with content eventually carries a trigger control.
EligibleInFeed(e) == \E k \in Posts(feed) : feed[k].el = e /\ Eligible(feed[k])
CarriesControl(e) == \E k \in Posts(feed) : feed[k].el = e /\ feed[k].ctrls # <<>>

C5_EveryEligiblePostGetsControl ==
    \A e \in Elems : <>[]EligibleInFeed(e) => <>CarriesControl(e)

\* C6: after one cleanupDuplicateButtons pass, the controls whose closest
\* post has one identity are exactly one control, the one that came first in
\* document order (and none at all when the second loop removed that one
\* because its post is not eligible).
Grouped(f, i) == HasClosestPost(f[i]) /\ f[i].ctrls # <<>>
FirstOfGroup(f, i) ==
    /\ Grouped(f, i)
    /\ \A j \in 1..(i - 1) :
          Grouped(f, j) => getPostId(f, j) # getPostId(f, i)

C6_DuplicatesRemoved ==
    LET c == cleanupDuplicateButtons(feed)
    IN  /\ \A i \in Posts(c) :
              Grouped(c, i) =>
                  /\ FirstOfGroup(feed, i)
                  /\ c[i].ctrls = <<feed[i].ctrls[1]>>
                  /\ \A j \in Posts(c) \ {i} :
                        Grouped(c, j) => getPostId(c, j) # getPostId(c, i)
        /\ \A i \in Posts(feed) :
              (FirstOfGroup(feed, i) /\ Eligible(feed[i])) => Grouped(c, i)

\* Two controls of one identity group are in the feed, the first one in an
\* eligible post, so that the pass removes one and keeps one.
C6_Witness ==
    \E i, j \in Posts(feed) :
        /\ i < j
        /\ Grouped(feed, i) /\ Grouped(feed, j)
        /\ getPostId(feed, i) = getPostId(feed, j)
        /\ Eligible(feed[i])
        /\ cleanupDuplicateButtons(feed)[i].ctrls # <<>>
        /\ cleanupDuplicateButtons(feed)[j].ctrls = <<>>

\* C7: after one cleanupDuplicateButtons pass no post that is not commentable
\* or has no content holds a trigger control.
C7_IneligibleCleaned ==
    LET c == cleanupDuplicateButtons(feed)
    IN  \A i \in Posts(c) : ~Eligible(c[i]) => c[i].ctrls = <<>>

\* C8: no step removes an identity from processedPostIds, and a control is
\* injected only under an identity that was not in processedPostIds and is
\* in it afterwards.
InjectedTags(f, g) ==
    { g[k].ctrls[Len(g[k].ctrls)].tag :
        k \in { n \in Posts(g) : /\ Len(f) = Len(g)
                                 /\ Len(g[n].ctrls) > Len(f[n].ctrls) } }

C8_OneShot ==
    [][ /\ processedPostIds \subseteq processedPostIds'
        /\ \A id \in InjectedTags(feed, feed') :
              id \notin processedPostIds /\ id \in processedPostIds' ]_vars

\* A post with a platform urn is eligible and in the Processed-Set, a pass
\* has just run, and the post has no control.
C8_Witness ==
    /\ streak >= 1
    /\ \E k \in Posts(feed) :
          /\ feed[k].urn # 0
          /\ Eligible(feed[k])
          /\ getPostId(feed, k) \in processedPostIds
          /\ feed[k].ctrls = <<>>

\* C9: a post element that stays in the feed with its own attributes
\* unchanged keeps its identity.
Attributes(post) == [post EXCEPT !.ctrls = <<>>]

C9_IdentityStable ==
    [][ \A e \in Elems :
          (/\ ElemIn(feed, e) /\ ElemIn(feed', e)
           /\ Attributes(feed[IndexIn(feed, e)]) =
                Attributes(feed'[IndexIn(feed', e)]))
          => getPostId(feed, IndexIn(feed, e)) =
                getPostId(feed', IndexIn(feed', e)) ]_vars

\* C10: two different posts of the feed never have the same identity.
C10_IdentityDistinct ==
    \A i, j \in Posts(feed) :
        i # j => getPostId(feed, i) # getPostId(feed, j)

\* C11: after every completed pass, every trigger control of the document
\* sits in a post that is commentable and has content at that moment.
C11_ControlsOnlyInEligible ==
    streak >= 1 =>
        \A k \in Posts(feed) : feed[k].ctrls # <<>> => Eligible(feed[k])

\* C12: hasContent is true exactly when an element of a content region has
\* trimmed text of at least 20 characters or a media selector matches; a
\* post without text and with a recognised image container has content.
ContentRegions == {"common", "actor"}

C12_HasContentIff ==
    hc.done =>
        (hc.result <=>
            \/ \E k \in 1..Len(hc.els) :
                  /\ hc.els[k].kind \in ContentRegions
                  /\ hc.els[k].core >= 20
            \/ \E k \in 1..Len(hc.els) : hc.els[k].kind = "media")

\* A post whose only element is an image container without text was
\* classified as having content.
C12_Witness ==
    /\ hc.done
    /\ hc.result
    /\ Len(hc.els) = 1
    /\ hc.els[1].kind = "media"
    /\ hc.els[1].core = 0

\* C13: when an insertion routine reports success, some insertion method
\* passed its check and the text of the comment box is exactly the comment,
\* also when the first method had no effect.
C13_SuccessMeansExactText ==
    ins.result = "true" =>
        /\ \E k \in 1..Len(ins.tried) : ins.tried[k].passed
        /\ ins.text = "comment"

\* C14: when the first three fetches of a call are aborted by the request
\* timeout, the call is rejected with 'API request timed out', has made no
\* fourth fetch and is not pending.
ThreeTimeouts ==
    /\ Len(gw.fetches) >= 3
    /\ \A k \in 1..3 : gw.fetches[k] = "AbortError"

C14_ThreeTimeoutsReject ==
    ThreeTimeouts =>
        /\ gw.pc = "settled"
        /\ gw.error = "API request timed out"
        /\ gw.result = "none"
        /\ Len(gw.fetches) = 3

\* A call whose three fetches were aborted has been rejected.
C14_Witness ==
    /\ ThreeTimeouts
    /\ gw.pc = "settled"
    /\ gw.waits = <<2000, 4000>>

\* C15 (as stated): a call makes at most 3 fetches, waits 1000 * 2^k ms
\* after its k-th failed fetch before the next one, and when the retries
\* are exceeded the error it surfaces is the timeout error.
AtMostThreeFetches == Len(gw.fetches) <= 3

BackoffDoubles ==
    /\ Len(gw.waits) <= 2
    /\ \A k \in 1..Len(gw.waits) : gw.waits[k] = 1000 * 2^k
    /\ gw.pc = "backoff" => Len(gw.waits) = Len(gw.fetches)
    /\ gw.pc = "fetching" => Len(gw.waits) = Len(gw.fetches)

C15_RetriesEndInTimeoutError ==
    /\ AtMostThreeFetches
    /\ BackoffDoubles
    /\ gw.retries > 2 => gw.error = "API request timed out"

\* C15 (amended): a call makes at most 3 fetches, waits 1000 * 2^k ms
\* after its k-th failed fetch before the next one, and when the retries
\* are exceeded it surfaces the timeout error if the last fetch was aborted
\* by the timeout and the last fetch's own error otherwise.
C15_BoundedRetries ==
    /\ AtMostThreeFetches
    /\ BackoffDoubles
    /\ gw.retries > 2 =>
          /\ gw.pc = "settled"
          /\ gw.error = IF gw.fetches[3] = "AbortError"
                            THEN "API request timed out"
                            ELSE gw.fetches[3]

\* A call has waited 2000 ms and 4000 ms, its third fetch failed in the
\* network, and the call surfaced that failure.
C15_Witness ==
    /\ gw.retries > 2
    /\ gw.waits = <<2000, 4000>>
    /\ gw.fetches[3] = "TypeError"
    /\ gw.error = "TypeError"

\* C16 (as stated): every failure a call surfaces, a non-2xx status and a
\* malformed response included, was retried with backoff before.
Surfaced == gw.pc = "settled" /\ gw.error # "none"

C16_EveryFailureRetried ==
    Surfaced => Len(gw.fetches) = 3 /\ gw.waits = <<2000, 4000>>

\* C16 (amended): a failed fetch (timeout or network failure) is surfaced
\* only after 2 retries with backoff; a non-2xx status and a malformed
\* response are surfaced as errors at once, without a retry.
LastFetch == gw.fetches[Len(gw.fetches)]

C16_FetchFailuresRetried ==
    Surfaced =>
        IF LastFetch \in FetchRejections
            THEN Len(gw.fetches) = 3 /\ gw.waits = <<2000, 4000>>
            ELSE /\ Len(gw.waits) = Len(gw.fetches) - 1
                 /\ \A k \in 1..Len(gw.waits) :
                        gw.fetches[k] \in FetchRejections

\* A call surfaced the non-2xx status of its first fetch.
C16_Witness ==
    /\ Surfaced
    /\ gw.fetches = <<"notOk">>
    /\ gw.waits = <<>>

\* C17: for a generateComment message the background listener calls
\* sendResponse exactly once when the handling is over: with the comment
\* when the service answered 2xx with a well-formed body, and with an error
\* string otherwise (non-2xx status, malformed body, missing payload).
WellFormedAnswer ==
    bg.payload = "present" /\ bg.fetch = "ok" /\ bg.body = "wellFormed"

C17_OneResponsePerMessage ==
    bg.action = "generateComment" =>
        /\ Len(bg.responses) <= 1
        /\ bg.pc = "done" =>
              /\ Len(bg.responses) = 1
              /\ IF WellFormedAnswer
                    THEN bg.responses[1] = CommentResponse("text")
                    ELSE bg.responses[1].kind = "error"

\* C18: a getSelectedPost message is answered with success and the
\* extracted text of the current post when the page has a post, and with a
\* failure only when it has none.
C18_SelectedPostAnswered ==
    cm.action = "getSelectedPost" =>
        /\ Len(cm.responses) = 1
        /\ cm.responses[1].success <=> cm.posts > 0
        /\ cm.posts > 0 =>
              \E k \in Posts(feed) :
                  cm.responses[1].content = extractPostContent(feed[k])

\* C19: an insertion routine that found no visible comment button to click
\* still looks for the comment box, and returns before it has tried an
\* insertion method only when it found no usable box.
C19_MissingAffordanceNotFatal ==
    (ins.pc = "returned" /\ ~ins.clicked) =>
        /\ ins.located # "unknown"
        /\ ins.tried = <<>> => ins.located = "missing"

\* C20: an insertion routine returns true only if one of its methods passed
\* the check on the text of the box, and returns false when every method of
\* its cascade was tried and none left a text that passes the check.
CascadeExhausted ==
    /\ Len(ins.tried) = Len(Techniques(ins.routine))
    /\ \A k \in 1..Len(ins.tried) :
          ins.tried[k].response \in {"noop", "throws"}

C20_SuccessIffSomeMethodPassed ==
    ins.pc = "returned" =>
        /\ ins.result = "true" =>
              \E k \in 1..Len(ins.tried) : ins.tried[k].passed
        /\ CascadeExhausted => ins.result = "false"

\* C21: no exception raised inside an insertion routine, at whichever step,
\* leaves the routine: an invocation in which an exception reached the
\* routine's catch has returned, and has returned false.
C21_ExceptionsBecomeFalse ==
    /\ ins.result \in {"none", "true", "false"}
    /\ ins.thrown # "none" => ins.pc = "returned" /\ ins.result = "false"

C21_Witness ==
    /\ ins.thrown = "submitting"
    /\ ins.result = "false"
    /\ ins.routine = "pasteComment"

\* C22 (as stated): a pass gives no control to a scanned post that is not
\* commentable or has no content, and after the pass that post's identity
\* is in processedPostIds.
C22_IneligibleRecorded ==
    [][ streak' >= 1 =>
          \A k \in Posts(feed') :
              ~Eligible(feed'[k]) =>
                  /\ Len(feed'[k].ctrls) <= Len(feed[k].ctrls)
                  /\ getPostId(feed', k) \in processedPostIds' ]_vars

\* C22 (amended): a pass gives no control to a scanned post that is not
\* commentable or has no content and does not record it: every identity
\* the pass adds to processedPostIds is the identity of a post that is
\* commentable and has content.
C22_IneligibleSkipped ==
    [][ streak' >= 1 =>
          /\ \A k \in Posts(feed') :
                ~Eligible(feed'[k]) =>
                    Len(feed'[k].ctrls) <= Len(feed[k].ctrls)
          /\ \A id \in processedPostIds' \ processedPostIds :
                \E j \in Posts(feed') :
                    Eligible(feed'[j]) /\ getPostId(feed', j) = id ]_vars

\* A pass has just given a control to one post and skipped another, which
\* is not commentable or has no content and is not in processedPostIds.
C22_Witness ==
    /\ streak >= 1
    /\ buttonsAdded > 0
    /\ \E k \in Posts(feed) :
          /\ ~Eligible(feed[k])
          /\ feed[k].ctrls = <<>>
          /\ getPostId(feed, k) \notin processedPostIds

\* C23: forceCommentInsertion, simpleTypeComment and
\* ultraForceCommentInsertion reach the submission (the click on the post
\* button or the simulated Enter) only after one of their methods passed
\* its check, and submit nothing when the box does not hold the comment's
\* text.
SubmitRoutines ==
    {"forceCommentInsertion", "simpleTypeComment",
     "ultraForceCommentInsertion"}

C23_SubmitOnlyAfterCheck ==
    (ins.routine \in SubmitRoutines /\ ins.submit # "none") =>
        /\ ins.textInserted
        /\ PostCheck(ins.text)

\* C24: when two invocations for different posts overlap, each one takes
\* the comment box of its own post, so the two never hold the same box, and
\* each one submits its own comment under its own post.
C24_OwnInputEach ==
    /\ \A i \in InsertPosts : ov.inv[i].box \in {0, i}
    /\ \A k \in 1..Len(ov.submitted) :
          /\ ov.submitted[k].post = ov.submitted[k].by
          /\ ov.submitted[k].text = ov.submitted[k].by

\* C25: cleanupDuplicateButtons removes a control only from a post that
\* holds an earlier control or is not eligible: the first control of a post
\* that is commentable and has content is kept, also when another post has
\* the same identity.
C25_OnlyControlKept ==
    LET c == cleanupDuplicateButtons(feed)
    IN  \A i \in Posts(feed) :
            (Eligible(feed[i]) /\ feed[i].ctrls # <<>>) =>
                /\ c[i].ctrls # <<>>
                /\ c[i].ctrls[1] = feed[i].ctrls[1]

\* C26: an exception thrown during a pass does not leave addButtonsToPosts;
\* the pass is abandoned, the interval timer can fire again, and the pass
\* that follows an abandoned one runs the whole pipeline: after it every
\* post that is commentable and has content is in processedPostIds and no
\* post holds two controls.
C26_PassErrorsContained ==
    /\ lastPass # "uncaught"
    /\ lastPass \in {"abandoned", "scanFailed"} =>
          streak = 0 /\ ENABLED IntervalPass
    /\ (lastPass = "resumed" /\ streak >= 1) =>
          \A k \in Posts(feed) :
              /\ Len(feed[k].ctrls) <= 1
              /\ Eligible(feed[k]) =>
                    getPostId(feed, k) \in processedPostIds

\* A pass was abandoned before it reached an eligible post, and the pass
\* after it gave that post its control.
C26_Witness ==
    /\ lastPass = "resumed"
    /\ streak = 1
    /\ buttonsAdded > 0
    /\ \E k \in Posts(feed) : Eligible(feed[k]) /\ Len(feed[k].ctrls) = 1

\* C27: when the evaluation of one selector pattern fails during a pass,
\* only the posts of that pattern are left out: the eligible posts matched
\* by the other patterns are processed in the same pass, so after it they
\* are in processedPostIds.
PostClasses == {ClsUpdate, ClsArticle}

C27_OtherPatternsProcessed ==
    [][ (lastPass' = "scanFailed" /\ hostSteps' = hostSteps) =>
          \E failed \in PostClasses :
              \A k \in Posts(feed') :
                  (feed'[k].cls # failed /\ Eligible(feed'[k])) =>
                      getPostId(feed', k) \in processedPostIds' ]_vars

\* C28: a pass gives every post that is commentable, has content, is not in
\* processedPostIds and holds no control exactly one control, in the
\* wrapper of the first tier that applies (next to the comment control of
\* the visible action bar, else appended to the visible action bar, else
\* at the bottom of the post); the wrapper carries the post's identity and
\* the identity is in processedPostIds afterwards.
TierWrapper(post) ==
    CASE post.bar = BarComment -> "li"
      [] post.bar = BarPlain -> "div"
      [] post.bar = BarNone -> "fallback"

C28_OneControlByFirstTier ==
    [][ streak' >= 1 =>
          \A k \in Posts(feed) :
              (/\ Eligible(feed[k])
               /\ getPostId(feed, k) \notin processedPostIds
               /\ feed[k].ctrls = <<>>)
              => /\ Len(feed'[k].ctrls) = 1
                 /\ feed'[k].ctrls[1].tag = getPostId(feed, k)
                 /\ feed'[k].ctrls[1].wrap = TierWrapper(feed[k])
                 /\ getPostId(feed, k) \in processedPostIds' ]_vars

\* C29: the cascades that start with the clipboard paste (pasteComment,
\* ultraForceCommentInsertion) try their techniques in the order of the
\* cascade; a technique is tried only when every earlier one failed its
\* check, and no technique is tried after one that left the comment's
\* first 10 characters in the box.
PasteCascades == {"pasteComment", "ultraForceCommentInsertion"}

NotificationEvents == {"input", "change", "keyup"}

C30_EventsBeforeSubmit ==
    (ins.textInserted /\ ins.pc = "submitting") =>
        NotificationEvents \subseteq ins.events

\* C31 (as stated): when the step found a post button it clicked it and
\* dispatched no Enter keydown; only when it found none it dispatched the
\* Enter keydown, then the Ctrl and the Shift variant.
SubmitStepRoutines == {"forceCommentInsertion", "ultraForceCommentInsertion"}

SubmitStepOver ==
    /\ ins.routine \in SubmitStepRoutines
    /\ ins.pc = "returned"
    /\ ins.result = "true"

EntersFallback ==
    /\ Len(ins.enters) >= 3
    /\ SubSeq(ins.enters, 1, 3) = <<"plain", "ctrl", "shift">>

C32_SubmitsAtMostOnce ==
    /\ ins.clicks <= 1
    /\ ins.clicks = 0 \/ ins.enters = <<>>

\* C33: the mutation-observer trigger is debounced: however many relevant
\* callbacks arrive before a pending 500 ms timeout fires, at most one
\* mutation-triggered pass is pending.
C33_Debounced == mutTimers <= 1

\* C34: a trigger control is hidden only while the comment UI of its post
\* is the open one.
C34_HiddenOnlyWhileOpen ==
    \A k \in Posts(feed) :
        \A c \in 1..Len(feed[k].ctrls) :
            feed[k].ctrls[c].hidden => activeCommentUI.el = feed[k].el

\* C35: the element an insertion routine takes as its comment box is
\* rendered and was the active element after focus(); an invocation that
\* found no such element has returned false.
C35_BoxVisibleAndFocused ==
    /\ ins.located = "found" => ins.box.visible /\ ins.box.focused
    /\ ins.located = "missing" => ins.pc = "returned" /\ ins.result = "false"

\* C36: when every awaited timer and promise settles, an invocation of an
\* insertion routine eventually returns true or false; the typing loops
\* take one round per character of the comment.
C36_EventuallyReturns ==
    /\ <>(ins.pc = "returned" /\ ins.result \in {"true", "false"})
    /\ [](ins.typed <= ins.len)

\* forceCommentInsertion typed every character of the comment in its third
\* method and returned.
C36_Witness ==
    /\ ins.routine = "forceCommentInsertion"
    /\ ins.pc = "returned"
    /\ ins.result = "true"
    /\ ins.len = MaxCommentLen
    /\ Len(ins.tried) = 3

\* C37: once the host page has stopped changing the feed, the passes that
\* the system's own insertions and removals trigger die out: from some point
\* on no observer timeout is pending, a pass adds no control and its cleanup
\* removes none.
C37_OwnPassesDieOut ==
    <>[](/\ mutTimers = 0
         /\ buttonsAdded = 0
         /\ cleanupDuplicateButtons(feed) = feed)

\* Passes have added a control, the timeouts they set have fired, and two
\* passes in a row added nothing more.
C37_Witness ==
    /\ ~startupPending
    /\ mutTimers = 0
    /\ streak = 2
    /\ buttonsAdded = 0
    /\ \E i \in 1..Len(feed) : feed[i].ctrls # <<>>
    /\ cleanupDuplicateButtons(feed) = feed

\* C38: a post that hasContent accepts because of its text (a content
\* region of at least 20 characters) never has the placeholder extracted
\* from it.
C38_TextPostNeverPlaceholder ==
    (hc.extracted # "none" /\ AnyTextSelector(hc.els, contentSelectors))
        => hc.extracted = "text"

\* C39: the copy button writes only a generated comment to the clipboard,
\* never the loading text and never the error message.
C39_CopiesOnlyComment == activeCommentUI.copied \in {"none", "comment"}

\* C40: the content script's listener sends exactly one reply to every
\* request it has handled, the popup's generateComment request included.
C40_OneReplyPerRequest == cm.action # "none" => Len(cm.responses) = 1

====
